---- MODULE Spec2Model ----
(***************************************************************************)
(* CricketIQ multi-agent collector: CricketManager fans one query out to   *)
(* its four sub-agents as asyncio tasks, joins them in registration order, *)
(* filters the successful outcomes and hands them to the AnalyzerAgent.    *)
(*                                                                         *)
(* Python values are modelled as follows: a dict is a record, an           *)
(* insertion-ordered dict that the code iterates is a sequence of          *)
(* [key, value] entries, None (where a str is expected) is the string      *)
(* NoneStr, and the result of a call is [kind |-> "dict" | "none" |        *)
(* "raise"].  time.time() stamps and elapsed times are left out of the     *)
(* records: no branch of the code reads them.                              *)
(***************************************************************************)
EXTENDS Integers, Sequences, FiniteSets, TLC

\* ------------------------------------------------------------------ bounds
MaxCalls == 1
\* network faults (exception or HTTP error status) injected per public operation
MaxFaults == 1
\* the longest a request blocks, in seconds (each session.get has a timeout)
MaxLatency == 2
\* public operations one caller makes one after the other on the same manager
MaxSessionCalls == 2
\* calls of the _get_fallback_stats methods in one behaviour
MaxFallbackCalls == 2
\* the value of total_requests up to which CricketDataScraper is called again
MaxRequests == 4

\* ------------------------------------------------------------------ inputs
NoneStr == "<None>"
TextSubjects == {"Virat Kohli", "Brian Lara"}
Subjects == TextSubjects \cup {NoneStr}
Formats == {"all", "Test"}
Modes == {"batting", "bowling"}
ComparePairs == {<<"Virat Kohli", "Brian Lara">>, <<"Virat Kohli", NoneStr>>,
                 <<NoneStr, "Brian Lara">>, <<NoneStr, NoneStr>>}
CompareFormats == {"Test"}
CompareModes == {"bowling"}
ExcMsgs == {"Read timed out"}
GeminiTexts == {"gemini analysis text"}

\* ------------------------------------------------------- str / dict helpers
IsText(s) == s # NoneStr

\* str.lower() on the strings the model uses
Lower(s) ==
  CASE s = "Test" -> "test"
    [] s = "ODI" -> "odi"
    [] s = "T20" -> "t20"
    [] s = "Virat Kohli" -> "virat kohli"
    [] s = "Brian Lara" -> "brian lara"
    [] OTHER -> s

\* str.replace(' ', sep) on the strings the model uses
ReplaceSpace(s, sep) ==
  CASE s = "Virat Kohli" -> "Virat" \o sep \o "Kohli"
    [] s = "Brian Lara" -> "Brian" \o sep \o "Lara"
    [] s = "virat kohli" -> "virat" \o sep \o "kohli"
    [] s = "brian lara" -> "brian" \o sep \o "lara"
    [] OTHER -> s

\* str.title() on the mode strings
Title(s) ==
  CASE s = "batting" -> "Batting"
    [] s = "bowling" -> "Bowling"
    [] s = "fielding" -> "Fielding"
    [] OTHER -> s

\* dict.get(k, default)
Get(d, k, default) == IF k \in DOMAIN d THEN d[k] ELSE default

\* insertion-ordered dict: d[key] = value
DictSet(d, k, v) ==
  IF \E i \in 1..Len(d) : d[i].key = k
  THEN [i \in 1..Len(d) |-> IF d[i].key = k THEN [key |-> k, value |-> v] ELSE d[i]]
  ELSE Append(d, [key |-> k, value |-> v])

DictKeys(d) == [i \in 1..Len(d) |-> d[i].key]
DictHas(d, k) == \E i \in 1..Len(d) : d[i].key = k
DictAt(d, k) == d[CHOOSE i \in 1..Len(d) : d[i].key = k].value

Ret(d) == [kind |-> "dict", value |-> d]
RetNone == [kind |-> "none"]
Raise(m) == [kind |-> "raise", msg |-> m]

AttrErr(attr) == "'NoneType' object has no attribute '" \o attr \o "'"
JoinErr == "sequence item 0: expected str instance, NoneType found"

\* --------------------------------------------------- registration (manager)
data_sources == <<"espn_direct", "espn_google", "wikipedia", "google_search">>
AllSources == {data_sources[i] : i \in 1..Len(data_sources)}
RegPos(s) == CHOOSE i \in 1..Len(data_sources) : data_sources[i] = s

\* ------------------------------------------------------ network responses
Exc(m) == [kind |-> "exc", msg |-> m]
Http(s, b) == [kind |-> "http", status |-> s, body |-> b]
Href(prefix, id) == [prefix |-> prefix, id |-> id]
HrefStr(h) == h.prefix \o h.id
\* re.search(r'/cricketers/([^/]+)', href): the group needs one character
PlayerId(h) == IF h.id # "" THEN h.id ELSE NoneStr

ESPNSearchResponses ==
  {Exc(m) : m \in ExcMsgs} \cup
  {Http(403, <<>>), Http(200, <<>>),
   Http(200, <<Href("/cricketers/", "virat-kohli-253802")>>),
   Http(200, <<Href("/cricketers/", "")>>)}

GoogleESPNResponses ==
  {Exc(m) : m \in ExcMsgs} \cup
  {Http(429, <<>>), Http(200, <<>>),
   Http(200, <<Href("https://www.espncricinfo.com/cricketers/", "virat-kohli-253802")>>),
   Http(200, <<Href("https://www.espncricinfo.com/cricketers/", "")>>)}

WikipediaResponses ==
  {Exc(m) : m \in ExcMsgs} \cup
  {Http(404, FALSE), Http(503, FALSE), Http(200, FALSE), Http(200, TRUE)}

\* body: what _extract_search_results finds on the page
GooglePage(sn, cs, st) == [snippets |-> sn, sites |-> cs, stats |-> st]
GoogleSearchResponses ==
  {Exc(m) : m \in ExcMsgs} \cup
  {Http(429, GooglePage(<<>>, <<>>, <<>>)), Http(200, GooglePage(<<>>, <<>>, <<>>)),
   Http(200, GooglePage(<<"Kohli averages 49.15 in Test cricket">>, <<>>, <<"average">>))}

Responses(src) ==
  CASE src = "espn_direct" -> ESPNSearchResponses
    [] src = "espn_google" -> GoogleESPNResponses
    [] src = "wikipedia" -> WikipediaResponses
    [] src = "google_search" -> GoogleSearchResponses

IsFault(resp) == resp.kind = "exc" \/ resp.status # 200

StatusStr(s) ==
  CASE s = 200 -> "200" [] s = 403 -> "403" [] s = 404 -> "404"
    [] s = 429 -> "429" [] s = 503 -> "503"

\* ------------------------------------------------------- fallback payloads
StatBlock(m, i, r, h, a, s, c) ==
  [matches |-> m, innings |-> i, runs |-> r, highest |-> h, average |-> a,
   strike_rate |-> s, centuries |-> c]
StatBlockFifties(m, i, r, h, a, s, c, f) ==
  [matches |-> m, innings |-> i, runs |-> r, highest |-> h, average |-> a,
   strike_rate |-> s, centuries |-> c, fifties |-> f]
BowlBlock ==
  [matches |-> "0", innings |-> "0", wickets |-> "0", best_figures |-> "0/0",
   average |-> "0.00", economy |-> "0.00", strike_rate |-> "0.00"]
FieldBlock == [matches |-> "0", catches |-> "0", stumpings |-> "0", dismissals |-> "0"]

ESPNDirect_get_fallback_stats(format_type) ==
  CASE Lower(format_type) = "test" ->
         [Test |-> StatBlockFifties("0", "0", "0", "0", "0.00", "0.00", "0", "0")]
    [] Lower(format_type) = "odi" ->
         [ODI |-> StatBlockFifties("0", "0", "0", "0", "0.00", "0.00", "0", "0")]
    [] Lower(format_type) = "t20" ->
         [T20I |-> StatBlockFifties("0", "0", "0", "0", "0.00", "0.00", "0", "0")]
    [] OTHER ->
         [Test |-> StatBlock("0", "0", "0", "0", "0.00", "0.00", "0"),
          ODI |-> StatBlock("0", "0", "0", "0", "0.00", "0.00", "0"),
          T20I |-> StatBlock("0", "0", "0", "0", "0.00", "0.00", "0")]

ESPNGoogle_get_fallback_stats(format_type) ==
  CASE Lower(format_type) = "test" ->
         [Test |-> StatBlockFifties("113", "191", "8848", "254*", "49.15", "55.23", "29", "30")]
    [] Lower(format_type) = "odi" ->
         [ODI |-> StatBlockFifties("292", "280", "13848", "183", "58.67", "93.17", "50", "72")]
    [] Lower(format_type) = "t20" ->
         [T20I |-> StatBlockFifties("115", "109", "4008", "122*", "52.73", "137.96", "1", "37")]
    [] OTHER ->
         [Test |-> StatBlock("113", "191", "8848", "254*", "49.15", "55.23", "29"),
          ODI |-> StatBlock("292", "280", "13848", "183", "58.67", "93.17", "50"),
          T20I |-> StatBlock("115", "109", "4008", "122*", "52.73", "137.96", "1")]

GeneralStats == [General |-> [matches |-> "0", statistics |-> "No data available"]]

GoogleModeBlock(mode) ==
  CASE Lower(mode) = "batting" -> StatBlockFifties("0", "0", "0", "0", "0.00", "0.00", "0", "0")
    [] Lower(mode) = "bowling" -> BowlBlock
    [] Lower(mode) = "fielding" -> FieldBlock

GoogleSearch_get_fallback_stats(format_type, mode) ==
  IF Lower(format_type) \in {"test", "odi", "t20"}
  THEN IF Lower(mode) \in {"batting", "bowling", "fielding"}
       THEN CASE Lower(format_type) = "test" -> [Test |-> GoogleModeBlock(mode)]
              [] Lower(format_type) = "odi" -> [ODI |-> GoogleModeBlock(mode)]
              [] Lower(format_type) = "t20" -> [T20I |-> GoogleModeBlock(mode)]
       ELSE GeneralStats
  ELSE [Test |-> StatBlock("0", "0", "0", "0", "0.00", "0.00", "0"),
        ODI |-> StatBlock("0", "0", "0", "0", "0.00", "0.00", "0"),
        T20I |-> StatBlock("0", "0", "0", "0", "0.00", "0.00", "0")]

_get_role_from_mode(mode) ==
  CASE Lower(mode) = "batting" -> "Batsman"
    [] Lower(mode) = "bowling" -> "Bowler"
    [] Lower(mode) = "fielding" -> "Fielder"
    [] OTHER -> "Cricketer"

\* ------------------------------------------------------------ search_player
\* A coroutine segment ends at its next await (Sleep) or with the call's result.
Sleep(n) == [kind |-> "sleep", attempt |-> n]

ESPN_BASE == "https://www.espncricinfo.com"
WIKI_BASE == "https://en.wikipedia.org"

Failure(err, src, player_name) ==
  [success |-> FALSE, error |-> err, data_source |-> src, player_name |-> player_name]

ESPNDirect_after_loop_restart(player_name, format_type) == Sleep(1)

ESPNDirect_after_loop_failure(player_name, format_type) ==
  Ret(Failure("All ESPN searches failed", "espn_direct", player_name))

\* ESPNDirectAgent.search_player, lines 96-122: the code after the loop
ESPNDirect_after_loop(player_name, format_type) ==
  IF IsText(player_name)
  THEN Ret([success |-> TRUE, name |-> player_name,
            url |-> ESPN_BASE \o "/cricketers/" \o ReplaceSpace(Lower(player_name), "-"),
            id |-> ReplaceSpace(Lower(player_name), "-"),
            data_source |-> "espn_direct_fallback", format_type |-> format_type,
            fallback_data |-> TRUE,
            player_info |-> [name |-> player_name, role |-> "Batsman", team |-> "India"],
            stats |-> ESPNDirect_get_fallback_stats(format_type)])
  ELSE Ret(Failure(AttrErr("lower"), "espn_direct", player_name))

\* ESPNDirectAgent.search_player: the loop body after its sleep, for one URL
ESPNDirect_wake(player_name, format_type, attempt, resp) ==
  IF /\ resp.kind = "http" /\ resp.status = 200
     /\ Len(resp.body) > 0 /\ PlayerId(resp.body[1]) # NoneStr
  THEN Ret([success |-> TRUE, name |-> player_name,
            url |-> ESPN_BASE \o HrefStr(resp.body[1]),
            id |-> PlayerId(resp.body[1]),
            data_source |-> "espn_direct", format_type |-> format_type])
  ELSE IF attempt < 2 THEN Sleep(attempt + 1)
       ELSE ESPNDirect_after_loop(player_name, format_type)

ESPNDirect_start(player_name, format_type) == Sleep(1)

ESPNGoogle_handler_raising(player_name, format_type) == Raise(AttrErr("lower"))

\* ESPNGoogleAgent.search_player, lines 92-109: the except handler
ESPNGoogle_handler(player_name, format_type) ==
  IF IsText(player_name)
  THEN Ret([success |-> TRUE, name |-> player_name,
            url |-> ESPN_BASE \o "/cricketers/" \o ReplaceSpace(Lower(player_name), "-"),
            id |-> ReplaceSpace(Lower(player_name), "-"),
            data_source |-> "espn_google_fallback", format_type |-> format_type,
            fallback_data |-> TRUE,
            player_info |-> [name |-> player_name, role |-> "Batsman", team |-> "India"],
            stats |-> ESPNGoogle_get_fallback_stats(format_type)])
  ELSE Raise(AttrErr("lower"))

ESPNGoogle_start(player_name, format_type) ==
  IF IsText(player_name) THEN Sleep(1) ELSE ESPNGoogle_handler(player_name, format_type)

ESPNGoogle_wake(player_name, format_type, resp) ==
  IF resp.kind = "exc" THEN ESPNGoogle_handler(player_name, format_type)
  ELSE IF resp.status = 200
       THEN IF Len(resp.body) > 0
            THEN IF PlayerId(resp.body[1]) # NoneStr
                 THEN Ret([success |-> TRUE, name |-> player_name,
                           url |-> HrefStr(resp.body[1]),
                           id |-> PlayerId(resp.body[1]),
                           data_source |-> "espn_via_google", format_type |-> format_type])
                 ELSE RetNone
            ELSE Ret(Failure("No ESPN Cricinfo links found in Google search results",
                             "espn_via_google", player_name))
       ELSE Ret(Failure("Google search failed with status " \o StatusStr(resp.status),
                        "espn_via_google", player_name))

Wikipedia_start(player_name, format_type) ==
  IF IsText(player_name) THEN Sleep(1)
  ELSE Ret(Failure(AttrErr("replace"), "wikipedia", player_name))

Wikipedia_wake(player_name, format_type, resp) ==
  IF resp.kind = "exc" THEN Ret(Failure(resp.msg, "wikipedia", player_name))
  ELSE IF resp.status = 200
       THEN IF resp.body
            THEN Ret([success |-> TRUE, name |-> player_name,
                      url |-> WIKI_BASE \o "/wiki/" \o ReplaceSpace(player_name, "_"),
                      id |-> Lower(ReplaceSpace(player_name, "_")),
                      data_source |-> "wikipedia", format_type |-> format_type])
            ELSE Ret(Failure("Wikipedia page exists but is not cricket-related",
                             "wikipedia", player_name))
       ELSE IF resp.status = 404
            THEN Ret(Failure("No Wikipedia page found for this player", "wikipedia", player_name))
            ELSE Ret(Failure("Wikipedia request failed with status " \o StatusStr(resp.status),
                             "wikipedia", player_name))

FormatTerms(format_type) ==
  CASE Lower(format_type) = "test" -> "+test+cricket+test+match+test+statistics"
    [] Lower(format_type) = "odi" -> "+ODI+cricket+one+day+international+ODI+statistics"
    [] Lower(format_type) = "t20" -> "+T20+cricket+T20I+T20+statistics+T20I+statistics"
    [] Lower(format_type) = "all" -> "+cricket+statistics+cricket+career+cricket+records"
    [] OTHER -> ""
ModeTerms(mode) ==
  CASE Lower(mode) = "batting" ->
         "+batting+average+runs+scored+centuries+batting+records+batting+statistics"
    [] Lower(mode) = "bowling" ->
         "+bowling+average+wickets+taken+bowling+figures+bowling+records+bowling+statistics"
    [] Lower(mode) = "fielding" ->
         "+catches+stumpings+fielding+records+fielding+statistics+dismissals"
    [] OTHER -> ""

_create_search_query(player_name, format_type, mode) ==
  IF IsText(player_name)
  THEN Ret(ReplaceSpace(player_name, "+") \o FormatTerms(format_type) \o ModeTerms(mode)
           \o "+cricket+stats+statistics+records")
  ELSE Raise(JoinErr)

_extract_search_results(page, player_name, format_type, mode) ==
  [player_name |-> player_name, format_type |-> format_type, mode |-> mode,
   search_snippets |-> page.snippets, cricket_sites |-> page.sites,
   statistics_mentioned |-> page.stats]

GoogleSearch_fallback(player_name, format_type, mode, url, withQuery, query) ==
  LET d == [success |-> TRUE, name |-> player_name, url |-> url,
            id |-> "google_search_" \o ReplaceSpace(Lower(player_name), "_"),
            data_source |-> "google_search_fallback", format_type |-> format_type,
            mode |-> mode, fallback_data |-> TRUE,
            player_info |-> [name |-> player_name, role |-> _get_role_from_mode(mode),
                             team |-> "International"],
            stats |-> GoogleSearch_get_fallback_stats(format_type, mode)]
  IN IF withQuery
     THEN [k \in DOMAIN d \cup {"search_query"} |-> IF k = "search_query" THEN query ELSE d[k]]
     ELSE d

\* GoogleSearchAgent.search_player, lines 102-120: the except handler
GoogleSearch_handler(player_name, format_type, mode) ==
  IF IsText(player_name)
  THEN Ret(GoogleSearch_fallback(player_name, format_type, mode,
                                 "https://www.google.com/search?q=" \o player_name, FALSE, ""))
  ELSE Raise(AttrErr("lower"))

GoogleSearch_start(player_name, format_type, mode) ==
  IF _create_search_query(player_name, format_type, mode).kind = "raise"
  THEN GoogleSearch_handler(player_name, format_type, mode)
  ELSE Sleep(1)

Truthy_any_extracted(d) ==
  d.search_snippets # <<>> \/ d.cricket_sites # <<>> \/ d.statistics_mentioned # <<>>

\* dict truthiness of `if search_results:`: a dict with keys is true
Truthy(d) == DOMAIN d # {}

GoogleSearch_wake(player_name, format_type, mode, resp) ==
  LET search_query == _create_search_query(player_name, format_type, mode).value
      search_url == "https://www.google.com/search?q=" \o search_query
  IN IF resp.kind = "exc" THEN GoogleSearch_handler(player_name, format_type, mode)
     ELSE IF resp.status = 200
          THEN LET search_results ==
                     _extract_search_results(resp.body, player_name, format_type, mode)
               IN IF Truthy(search_results)
                  THEN Ret([success |-> TRUE, name |-> player_name, url |-> search_url,
                            id |-> "google_search_" \o ReplaceSpace(Lower(player_name), "_"),
                            data_source |-> "google_search", format_type |-> format_type,
                            mode |-> mode, search_query |-> search_query,
                            search_results |-> search_results])
                  ELSE Ret(GoogleSearch_fallback(player_name, format_type, mode,
                                                 search_url, TRUE, search_query))
          ELSE Ret(Failure("Google search failed with status " \o StatusStr(resp.status),
                           "google_search", player_name))

\* agent.search_player(...) up to its first await
search_player_start(agent, player_name, format_type, mode) ==
  CASE agent = "espn_direct" -> ESPNDirect_start(player_name, format_type)
    [] agent = "espn_google" -> ESPNGoogle_start(player_name, format_type)
    [] agent = "wikipedia" -> Wikipedia_start(player_name, format_type)
    [] agent = "google_search" -> GoogleSearch_start(player_name, format_type, mode)

\* agent.search_player(...) from the end of a sleep to its next await or return
search_player_wake(agent, player_name, format_type, mode, attempt, resp) ==
  CASE agent = "espn_direct" -> ESPNDirect_wake(player_name, format_type, attempt, resp)
    [] agent = "espn_google" -> ESPNGoogle_wake(player_name, format_type, resp)
    [] agent = "wikipedia" -> Wikipedia_wake(player_name, format_type, resp)
    [] agent = "google_search" -> GoogleSearch_wake(player_name, format_type, mode, resp)

\* ------------------------------------------------------------------- state
VARIABLES
  sub_agents,        \* CricketManager.sub_agents: the set of its keys
  analyzer_agent,    \* CricketManager.analyzer_agent: "None" or the instance
  analyzer_model,    \* AnalyzerAgent.model is set (TRUE) or None (FALSE)
  calls,             \* public operations started so far
  req,               \* the running public operation and its arguments
  pc,                \* the position of the running public operation
  tasks,             \* collect_data_from_sources: the list `tasks` (source names)
  task,              \* per source: the asyncio task running _collect_from_source
  idx,               \* collect_data_from_sources: position of the `await task` loop
  results,           \* collect_data_from_sources: the dict `results`
  data,              \* the dicts returned by the collections of this operation
  successful,        \* the filtered dicts (successful_results / playerN_successful)
  summarizer_calls,  \* record of the calls made on the analyzer (call spy)
  report,            \* what the public operation handed back to its caller
  out_of_order,      \* some task finished before an earlier-registered one
  faults,            \* network faults injected during the running operation
  loop,              \* the asyncio event loop: its clock and the timers of the sleeps
  queries,           \* collections in flight side by side on one event loop
  instances,         \* the fields of the sub-agent instances (module-level singletons)
  fallbacks,         \* record of the calls of the _get_fallback_stats methods (call spy)
  scraper            \* cricket_mcp_server.scraper: its data_source_stats and last return

vars == <<sub_agents, analyzer_agent, analyzer_model, calls, req, pc, tasks, task,
          idx, results, data, successful, summarizer_calls, report, out_of_order, faults,
          loop, queries, instances, fallbacks, scraper>>

Pending == [kind |-> "pending"]
NoTask == [pc |-> "none", attempt |-> 0, ret |-> Pending, result |-> Pending]
NoReq == [op |-> "none", players |-> <<>>, format_type |-> "", mode |-> ""]
NoReport == [kind |-> "none"]

\* the clock of an event loop that has not run anything yet
NoLoop == [time |-> 0, started |-> 0, busy_until |-> 0,
           timers |-> [s \in AllSources |-> 0], spent |-> [s \in AllSources |-> 0]]

QueryIds == {1, 2}
NoQuery == [pc |-> "none", player_name |-> "", format_type |-> "", mode |-> "",
            task |-> [s \in AllSources |-> NoTask], results |-> <<>>]

\* CricketDataScraper.__init__, lines 59-65: the counters start at zero
ZeroStats == [espn_successful |-> 0, espn_failed |-> 0, mock_data_used |-> 0,
              total_requests |-> 0]
NewScraper == [data_source_stats |-> ZeroStats, returned |-> [kind |-> "pending"]]

\* __init__ of the four sub-agents: the fields they set on self
agent_fields(s) ==
  CASE s = "espn_direct" ->
         [session |-> "requests.Session", base_url |-> ESPN_BASE,
          stats_url |-> "https://stats.espncricinfo.com"]
    [] s = "espn_google" -> [session |-> "requests.Session", base_url |-> ESPN_BASE]
    [] s = "wikipedia" -> [session |-> "requests.Session", base_url |-> WIKI_BASE]
    [] s = "google_search" -> [session |-> "requests.Session"]

\* CricketManager.__init__ / setup_sub_agents: the imports either all succeed,
\* or one raises before sub_agents and analyzer_agent are assigned.
Init ==
  /\ \E ok \in BOOLEAN :
       /\ sub_agents = IF ok THEN AllSources ELSE {}
       /\ analyzer_agent = IF ok THEN "analyzer_agent_instance" ELSE "None"
       /\ analyzer_model \in (IF ok THEN BOOLEAN ELSE {FALSE})
  /\ calls = 0
  /\ req = NoReq
  /\ pc = "idle"
  /\ tasks = <<>>
  /\ task = [s \in AllSources |-> NoTask]
  /\ idx = 1
  /\ results = <<>>
  /\ data = <<>>
  /\ successful = <<>>
  /\ summarizer_calls = <<>>
  /\ report = NoReport
  /\ out_of_order = FALSE
  /\ faults = 0
  /\ loop = NoLoop
  /\ queries = [q \in QueryIds |-> NoQuery]
  /\ instances = [s \in AllSources |-> agent_fields(s)]
  /\ fallbacks = <<>>
  /\ scraper = NewScraper

\* ------------------------------------------------ collect_data_from_sources
create_tasks_skip_google(sources, agents) ==
  SelectSeq(sources, LAMBDA s : s \in agents /\ s # "google_search")

\* lines 62-77: the (source_name, task) list, one task per source with an agent
create_tasks(sources, agents) == SelectSeq(sources, LAMBDA s : s \in agents)

\* lines 67-76: how the call binds _collect_from_source's parameters
\* (agent, player_name, format_type, source_name, mode=None)
collect_from_source_args(src, player_name, format_type, mode) ==
  IF src = "google_search"
  THEN [agent |-> src, player_name |-> player_name, format_type |-> format_type,
        source_name |-> mode, mode |-> src]
  ELSE [agent |-> src, player_name |-> player_name, format_type |-> format_type,
        source_name |-> src, mode |-> NoneStr]

\* lines 97-102: the mode search_player runs with ("batting" is its default)
search_mode(a) ==
  IF a.source_name = "google_search" /\ a.mode # NoneStr /\ a.mode # ""
  THEN a.mode ELSE "batting"

collect_from_source_return_unknown(a, r) ==
  CASE r.kind = "dict" -> Ret(r.value)
    [] OTHER ->
         Ret([success |-> FALSE, error |-> "Unknown error", data_source |-> a.source_name])

\* lines 104-117: what _collect_from_source makes of search_player's result
collect_from_source_return(a, r) ==
  CASE r.kind = "dict" -> Ret(r.value)
    [] r.kind = "none" ->
         Ret([success |-> FALSE, error |-> AttrErr("get"), data_source |-> a.source_name])
    [] r.kind = "raise" ->
         Ret([success |-> FALSE, error |-> r.msg, data_source |-> a.source_name])

\* lines 81-90: what the collector stores for an awaited task
await_result(source_name, r) ==
  IF r.kind = "raise"
  THEN [success |-> FALSE, error |-> r.msg, data_source |-> source_name]
  ELSE r.value

await_next_as_completed(tsks, i, tk, res) ==
  {s \in AllSources : tk[s].pc = "done" /\ ~DictHas(res, s)}

\* lines 80-82: the sources whose task the collector can take next
await_next(tsks, i, tk, res) ==
  IF i <= Len(tsks) /\ tk[tsks[i]].pc = "done" THEN {tsks[i]} ELSE {}

join_first(tsks, i) == Len(tsks) = 0 \/ i > 1

\* line 92: the loop over tasks is exhausted
join_complete(tsks, i) == i > Len(tsks)

CurPlayer_first == req.players[1]

\* lines 126, 180, 181: the subject the running collection was called with
CurPlayer == req.players[Len(data) + 1]
CurArgs(src) == collect_from_source_args(src, CurPlayer, req.format_type, req.mode)

\* the state of a task after a coroutine segment ended with seg
after_segment(a, seg) ==
  IF seg.kind = "sleep"
  THEN [pc |-> "sleep", attempt |-> seg.attempt, ret |-> Pending, result |-> Pending]
  ELSE [pc |-> "done", attempt |-> 0, ret |-> seg,
        result |-> collect_from_source_return(a, seg)]

Position(tsks, s) == CHOOSE i \in 1..Len(tsks) : tsks[i] = s

FinishesOutOfOrder(s, t) ==
  /\ t.pc = "done"
  /\ \E i \in 1..Len(tasks) : i < Position(tasks, s) /\ task[tasks[i]].pc # "done"

\* lines 54-77: a collection starts; asyncio.create_task queues every task
StartCollection ==
  /\ tasks' = create_tasks(data_sources, sub_agents)
  /\ task' = [s \in AllSources |->
                IF \E i \in 1..Len(tasks') : tasks'[i] = s
                THEN [pc |-> "ready", attempt |-> 0, ret |-> Pending, result |-> Pending]
                ELSE NoTask]
  /\ idx' = 1
  /\ results' = <<>>
  /\ out_of_order' = FALSE
  /\ loop' = [NoLoop EXCEPT !.time = loop.time, !.started = loop.time,
                            !.busy_until = loop.time]

\* the event loop runs a queued task up to its first await; tasks queued by
\* create_task start in the order they were created
StartSegment(s) ==
  /\ pc = "collecting"
  /\ task[s].pc = "ready"
  /\ \A i \in 1..Len(tasks) : i < Position(tasks, s) => task[tasks[i]].pc # "ready"
  /\ LET a == CurArgs(s)
         t == after_segment(a, search_player_start(a.agent, a.player_name,
                                                   a.format_type, search_mode(a)))
     IN /\ task' = [task EXCEPT ![s] = t]
        /\ out_of_order' = (out_of_order \/ FinishesOutOfOrder(s, t))
  /\ UNCHANGED <<sub_agents, analyzer_agent, analyzer_model, calls, req, pc, tasks,
                 idx, results, data, successful, summarizer_calls, report, faults>>
  /\ UNCHANGED <<queries, instances>>

  /\ UNCHANGED <<fallbacks, scraper>>
TaskStart(s) == StartSegment(s) /\ UNCHANGED loop

\* a sleep ends: the task issues its request and runs to its next await or end
TaskWake(s) ==
  /\ pc = "collecting"
  /\ task[s].pc = "sleep"
  /\ \A x \in AllSources : task[x].pc # "ready"
  /\ \E resp \in Responses(s) :
       /\ IsFault(resp) => faults < MaxFaults
       /\ faults' = IF IsFault(resp) THEN faults + 1 ELSE faults
       /\ LET a == CurArgs(s)
               t == after_segment(a, search_player_wake(a.agent, a.player_name,
                                     a.format_type, search_mode(a), task[s].attempt, resp))
          IN /\ task' = [task EXCEPT ![s] = t]
             /\ out_of_order' = (out_of_order \/ FinishesOutOfOrder(s, t))
  /\ UNCHANGED <<sub_agents, analyzer_agent, analyzer_model, calls, req, pc, tasks,
                 idx, results, data, successful, summarizer_calls, report>>
  /\ UNCHANGED <<loop, queries, instances>>

  /\ UNCHANGED <<fallbacks, scraper>>
\* lines 80-90: `await task` returns for the next task of the loop
AwaitTask ==
  /\ pc = "collecting"
  /\ \E s \in await_next(tasks, idx, task, results) :
       results' = DictSet(results, s, await_result(s, task[s].result))
  /\ idx' = idx + 1
  /\ UNCHANGED <<sub_agents, analyzer_agent, analyzer_model, calls, req, pc, tasks,
                 task, data, successful, summarizer_calls, report, out_of_order, faults>>
  /\ UNCHANGED <<loop, queries, instances>>

  /\ UNCHANGED <<fallbacks, scraper>>
\* line 92: return results
CollectReturn ==
  /\ pc = "collecting"
  /\ join_complete(tasks, idx)
  /\ data' = Append(data, results)
  /\ pc' = "collected"
  /\ UNCHANGED <<sub_agents, analyzer_agent, analyzer_model, calls, req, tasks, task,
                 idx, results, successful, summarizer_calls, report, out_of_order, faults>>
  /\ UNCHANGED <<loop, queries, instances>>

  /\ UNCHANGED <<fallbacks, scraper>>
\* ------------------------------------------------------------ AnalyzerAgent
GeminiOutcomes == {[kind |-> "text", text |-> t] : t \in GeminiTexts} \cup {Exc(m) : m \in ExcMsgs}

\* lines 297-304: model.generate_content(prompt) returns or raises
_get_gemini_analysis(g) ==
  IF g.kind = "exc" THEN "Error generating Gemini response: " \o g.msg ELSE g.text

analyze_player_data(model_set, g) ==
  IF ~model_set THEN "Gemini model not available for analysis" ELSE _get_gemini_analysis(g)

compare_players_data(model_set, g) ==
  IF ~model_set THEN "Gemini model not available for comparison" ELSE _get_gemini_analysis(g)

\* ----------------------------------------------------------- CricketManager
\* str(x) inside an f-string
PyStr(s) == IF s = NoneStr THEN "None" ELSE s

is_successful_live_only(d) == Get(d, "success", FALSE) /\ ~Get(d, "fallback_data", FALSE)

\* lines 131, 186, 190: data.get('success', False)
is_successful(d) == Get(d, "success", FALSE)

\* lines 129-132, 184-191: the dict comprehension over data_results.items()
filter_successful(data_results) == SelectSeq(data_results, LAMBDA e : is_successful(e.value))

source_display(s) ==
  CASE s = "espn_direct" -> "ESPN Cricinfo Direct"
    [] s = "espn_google" -> "ESPN via Google"
    [] s = "wikipedia" -> "Wikipedia"
    [] s = "google_search" -> "Google Search"

status_line_fallback_as_live(s, result) ==
  IF Get(result, "success", FALSE)
  THEN [kind |-> "source", source |-> s, label |-> source_display(s),
        category |-> "Success (Live Data)", reason |-> ""]
  ELSE [kind |-> "source", source |-> s, label |-> source_display(s),
        category |-> "Failed", reason |-> Get(result, "error", "Unknown error")]

status_line_fallback_failed(s, result) ==
  IF Get(result, "success", FALSE) /\ ~Get(result, "fallback_data", FALSE)
  THEN [kind |-> "source", source |-> s, label |-> source_display(s),
        category |-> "Success (Live Data)", reason |-> ""]
  ELSE [kind |-> "source", source |-> s, label |-> source_display(s),
        category |-> "Failed", reason |-> Get(result, "error", "Unknown error")]

\* lines 240-253: the line of one source
status_line(s, result) ==
  IF Get(result, "success", FALSE)
  THEN IF Get(result, "fallback_data", FALSE)
       THEN [kind |-> "source", source |-> s, label |-> source_display(s),
             category |-> "Success (Fallback Data)", reason |-> ""]
       ELSE [kind |-> "source", source |-> s, label |-> source_display(s),
             category |-> "Success (Live Data)", reason |-> ""]
  ELSE [kind |-> "source", source |-> s, label |-> source_display(s),
        category |-> "Failed", reason |-> Get(result, "error", "Unknown error")]

StatusOrder_sorted == <<"espn_direct", "espn_google", "google_search", "wikipedia">>

\* line 238: the list _format_data_source_status iterates
StatusOrder == <<"espn_direct", "espn_google", "wikipedia", "google_search">>

_format_data_source_status(all_results, successful_results) ==
  LET present == SelectSeq(StatusOrder, LAMBDA s : DictHas(all_results, s))
  IN <<[kind |-> "header", text |-> "Data Source Status:"]>> \o
     [i \in 1..Len(present) |-> status_line(present[i], DictAt(all_results, present[i]))]

no_sources_never(successful_results) == FALSE

\* line 134: `if not successful_results`
no_sources(successful_results) == Len(successful_results) = 0

compare_lacking_first_only(players, succ1, succ2) ==
  IF Len(succ1) = 0 THEN <<players[1]>> ELSE <<>>

\* lines 193-196: the player compare_players reports as lacking data, if any
compare_lacking(players, succ1, succ2) ==
  IF Len(succ1) = 0 THEN <<players[1]>>
  ELSE IF Len(succ2) = 0 THEN <<players[2]>> ELSE <<>>

Returned(v) == [kind |-> "return", value |-> v]

analyze_player_return_raising(player_name, body) ==
  IF body.kind = "raise" THEN body
  ELSE IF body.value.kind = "no_sources"
       THEN Raise(body.value.text)
       ELSE Returned(body.value)

\* lines 123, 169-170: the try/except around analyze_player's body
analyze_player_return(player_name, body) ==
  IF body.kind = "raise"
  THEN Returned([kind |-> "error",
                 text |-> "Error analyzing player " \o PyStr(player_name) \o ": " \o body.msg])
  ELSE Returned(body.value)

compare_players_return_no_message(body) ==
  IF body.kind = "raise"
  THEN Returned([kind |-> "error", text |-> "Error comparing players"])
  ELSE Returned(body.value)

\* lines 176, 223-224: the try/except around compare_players' body
compare_players_return(body) ==
  IF body.kind = "raise"
  THEN Returned([kind |-> "error", text |-> "Error comparing players: " \o body.msg])
  ELSE Returned(body.value)

\* lines 135: the report of a query without any successful source
no_sources_report(player_name) ==
  [kind |-> "no_sources",
   text |-> "No data sources were successful for " \o PyStr(player_name)
            \o ". All sources failed."]

cannot_compare_report(player_name) ==
  [kind |-> "cannot_compare",
   text |-> "No data sources were successful for " \o PyStr(player_name)
            \o ". Cannot compare."]

analysis_report_counts_all(player_name, format_type, mode, data_results, successful_results, text) ==
  [kind |-> "analysis", player |-> PyStr(player_name), format |-> format_type,
   mode |-> Title(mode),
   status |-> _format_data_source_status(data_results, successful_results),
   body |-> text, source_count |-> Len(data_results)]

\* lines 146-167
analysis_report(player_name, format_type, mode, data_results, successful_results, text) ==
  [kind |-> "analysis", player |-> PyStr(player_name), format |-> format_type,
   mode |-> Title(mode),
   status |-> _format_data_source_status(data_results, successful_results),
   body |-> text, source_count |-> Len(successful_results)]

\* lines 205-221
comparison_report(players, format_type, mode, succ1, succ2, text) ==
  [kind |-> "comparison", players |-> <<PyStr(players[1]), PyStr(players[2])>>,
   format |-> format_type, mode |-> Title(mode), body |-> text,
   source_counts |-> <<Len(succ1), Len(succ2)>>]

analyzer_call_default_mode(fn, players, format_type, succ, mode, text) ==
  [fn |-> fn, players |-> players, format_type |-> format_type, data |-> succ,
   mode |-> "batting", returned |-> text]

\* lines 139-144, 200-203: the arguments the analyzer is called with
analyzer_call(fn, players, format_type, succ, mode, text) ==
  [fn |-> fn, players |-> players, format_type |-> format_type, data |-> succ,
   mode |-> mode, returned |-> text]

NewFrame_keeps_history ==
  [data |-> <<>>, successful |-> <<>>, summarizer_calls |-> summarizer_calls,
   report |-> NoReport]

\* lines 119-121, 172-174: a call starts with a frame of its own; nothing of
\* an earlier call is an attribute of the manager or of the analyzer
NewFrame ==
  [data |-> <<>>, successful |-> <<>>, summarizer_calls |-> <<>>, report |-> NoReport]

\* a public operation is entered by the next call of the caller
BeginCall(op, players, format_type, mode) ==
  /\ pc \in {"idle", "returned"}
  /\ calls' = calls + 1
  /\ req' = [op |-> op, players |-> players, format_type |-> format_type, mode |-> mode]
  /\ pc' = "collecting"
  /\ data' = NewFrame.data
  /\ successful' = NewFrame.successful
  /\ summarizer_calls' = NewFrame.summarizer_calls
  /\ report' = NewFrame.report
  /\ faults' = 0
  /\ StartCollection
  /\ UNCHANGED <<sub_agents, analyzer_agent, analyzer_model>>
  /\ UNCHANGED <<queries, instances>>

  /\ UNCHANGED <<fallbacks, scraper>>
NewCall(op, players, format_type, mode) ==
  /\ calls < MaxCalls
  /\ BeginCall(op, players, format_type, mode)

\* lines 119-126: analyze_player is called and enters its collection
analyze_player ==
  \E p \in Subjects, f \in Formats, m \in Modes : NewCall("analyze_player", <<p>>, f, m)

\* lines 172-180: compare_players is called and enters its first collection
compare_players ==
  \E pp \in ComparePairs, f \in CompareFormats, m \in CompareModes :
     NewCall("compare_players", pp, f, m)

second_collection_if_first_succeeded(op, collected) ==
  op = "compare_players" /\ Len(collected) = 1 /\ filter_successful(collected[1]) # <<>>

\* lines 180-181: the second await follows the first with nothing in between
second_collection_due(op, collected) == op = "compare_players" /\ Len(collected) = 1

\* line 181: compare_players enters the collection for player2
SecondCollection ==
  /\ pc = "collected"
  /\ second_collection_due(req.op, data)
  /\ pc' = "collecting"
  /\ StartCollection
  /\ UNCHANGED <<sub_agents, analyzer_agent, analyzer_model, calls, req, data,
                 successful, summarizer_calls, report, faults>>
  /\ UNCHANGED <<queries, instances>>

  /\ UNCHANGED <<fallbacks, scraper>>
\* lines 128-135, 183-196: filter the successful results, stop if there is none
Aggregate ==
  /\ pc = "collected"
  /\ Len(data) = Len(req.players)
  /\ LET succ == [i \in 1..Len(data) |-> filter_successful(data[i])]
         stop == IF req.op = "analyze_player"
                 THEN IF no_sources(succ[1]) THEN <<req.players[1]>> ELSE <<>>
                 ELSE compare_lacking(req.players, succ[1], succ[2])
     IN /\ successful' = succ
        /\ IF stop # <<>>
           THEN /\ pc' = "returned"
                /\ report' = IF req.op = "analyze_player"
                             THEN analyze_player_return(req.players[1],
                                                        Ret(no_sources_report(stop[1])))
                             ELSE compare_players_return(Ret(cannot_compare_report(stop[1])))
           ELSE /\ pc' = "summarizing"
                /\ report' = report
  /\ UNCHANGED <<sub_agents, analyzer_agent, analyzer_model, calls, req, tasks, task,
                 idx, results, data, summarizer_calls, out_of_order, faults>>
  /\ UNCHANGED <<loop, queries, instances>>

  /\ UNCHANGED <<fallbacks, scraper>>
\* lines 137-167, 198-221: the call on the analyzer and the final report
Summarize ==
  /\ pc = "summarizing"
  /\ \E g \in GeminiOutcomes :
       LET called == analyzer_agent # "None"
           single == req.op = "analyze_player"
           text == IF single THEN analyze_player_data(analyzer_model, g)
                   ELSE compare_players_data(analyzer_model, g)
           body == IF ~called
                   THEN Raise(AttrErr(IF single THEN "analyze_player_data"
                                      ELSE "compare_players_data"))
                   ELSE IF single
                        THEN Ret(analysis_report(req.players[1], req.format_type, req.mode,
                                                 data[1], successful[1], text))
                        ELSE Ret(comparison_report(req.players, req.format_type, req.mode,
                                                   successful[1], successful[2], text))
       IN /\ summarizer_calls' =
               IF called
               THEN Append(summarizer_calls,
                           analyzer_call(IF single THEN "analyze_player_data"
                                         ELSE "compare_players_data",
                                         req.players, req.format_type, successful,
                                         req.mode, text))
               ELSE summarizer_calls
          /\ report' = IF single THEN analyze_player_return(req.players[1], body)
                       ELSE compare_players_return(body)
  /\ pc' = "returned"
  /\ UNCHANGED <<sub_agents, analyzer_agent, analyzer_model, calls, req, tasks, task,
                 idx, results, data, successful, out_of_order, faults>>
  /\ UNCHANGED <<loop, queries, instances>>

  /\ UNCHANGED <<fallbacks, scraper>>
Next ==
  \/ analyze_player
  \/ compare_players
  \/ \E s \in AllSources : TaskStart(s)
  \/ \E s \in AllSources : TaskWake(s)
  \/ AwaitTask
  \/ CollectReturn
  \/ SecondCollection
  \/ Aggregate
  \/ Summarize

Spec == Init /\ [][Next]_vars

TypeOK ==
  /\ pc \in {"idle", "collecting", "collected", "summarizing", "returned"}
  /\ calls \in 0..(IF MaxCalls > MaxSessionCalls THEN MaxCalls ELSE MaxSessionCalls)

\* ------------------------------------------------------- fair scheduling
\* analyze_player alone: one collection per call
NextAnalyze ==
  \/ analyze_player
  \/ \E s \in AllSources : TaskStart(s)
  \/ \E s \in AllSources : TaskWake(s)
  \/ AwaitTask
  \/ CollectReturn
  \/ Aggregate
  \/ Summarize

\* The asyncio event loop runs every task that create_task queued and every
\* task whose sleep is over, each request ends (session.get is given a
\* timeout), and the coroutine awaiting a finished task is resumed.
Fairness ==
  /\ \A s \in AllSources : WF_vars(TaskStart(s)) /\ WF_vars(TaskWake(s))
  /\ WF_vars(AwaitTask)
  /\ WF_vars(CollectReturn)

FairAnalyze == Init /\ [][NextAnalyze]_vars /\ Fairness

\* ------------------------------------------- the event loop, with its clock
\* A coroutine runs on the thread of the event loop from one await to the
\* next.  asyncio.sleep is an await: the loop sets a timer and runs other
\* tasks.  session.get is a plain call of the requests library: it returns
\* when the response is there, and the thread does nothing else meanwhile.
Latencies == 1..MaxLatency

\* the argument of asyncio.sleep in each search_player
RateLimit(s) ==
  CASE s = "espn_direct" -> 1
    [] s = "espn_google" -> 2
    [] s = "wikipedia" -> 1
    [] s = "google_search" -> 2

\* no coroutine is inside a blocking call: the thread of the loop is free
LoopIdle == \A x \in AllSources : task[x].pc # "request"

\* the timer of a task that went to sleep at the loop's time `now`
set_timer(l, s, now) ==
  [l EXCEPT !.time = now, !.busy_until = now,
            !.timers[s] = now + RateLimit(s), !.spent[s] = @ + RateLimit(s)]

\* analyze_player is called on an event loop whose clock is watched
TimedCall ==
  \E p \in TextSubjects, f \in {"all"}, m \in {"batting"} :
     NewCall("analyze_player", <<p>>, f, m)

\* a queued task runs up to its asyncio.sleep, which sets its timer
TimedTaskStart(s) ==
  /\ LoopIdle
  /\ StartSegment(s)
  /\ loop' = IF task'[s].pc = "sleep" THEN set_timer(loop, s, loop.time) ELSE loop

\* the earliest timer fires: the task resumes after its sleep and calls
\* session.get, which blocks the thread for the latency of the request
TaskRequest(s) ==
  /\ pc = "collecting"
  /\ LoopIdle
  /\ \A x \in AllSources : task[x].pc # "ready"
  /\ task[s].pc = "sleep"
  /\ \A x \in AllSources : task[x].pc = "sleep" => loop.timers[s] <= loop.timers[x]
  /\ \E latency \in Latencies :
       LET now == IF loop.timers[s] > loop.time THEN loop.timers[s] ELSE loop.time
       IN loop' = [loop EXCEPT !.time = now, !.busy_until = now + latency,
                               !.spent[s] = @ + latency]
  /\ task' = [task EXCEPT ![s].pc = "request"]
  /\ UNCHANGED <<sub_agents, analyzer_agent, analyzer_model, calls, req, pc, tasks,
                 idx, results, data, successful, summarizer_calls, report,
                 out_of_order, faults, queries, instances>>

  /\ UNCHANGED <<fallbacks, scraper>>
\* session.get returns or raises: the task runs to its next await or its end
TaskResponse(s) ==
  /\ pc = "collecting"
  /\ task[s].pc = "request"
  /\ \E resp \in Responses(s) :
       /\ IsFault(resp) => faults < MaxFaults
       /\ faults' = IF IsFault(resp) THEN faults + 1 ELSE faults
       /\ LET a == CurArgs(s)
               t == after_segment(a, search_player_wake(a.agent, a.player_name,
                                     a.format_type, search_mode(a), task[s].attempt, resp))
          IN /\ task' = [task EXCEPT ![s] = t]
             /\ out_of_order' = (out_of_order \/ FinishesOutOfOrder(s, t))
             /\ loop' = IF t.pc = "sleep" THEN set_timer(loop, s, loop.busy_until)
                        ELSE [loop EXCEPT !.time = loop.busy_until]
  /\ UNCHANGED <<sub_agents, analyzer_agent, analyzer_model, calls, req, pc, tasks,
                 idx, results, data, successful, summarizer_calls, report,
                 queries, instances>>

  /\ UNCHANGED <<fallbacks, scraper>>
\* the coroutine of collect_data_from_sources resumes on the same thread
TimedAwaitTask == LoopIdle /\ AwaitTask

TimedNext ==
  \/ TimedCall
  \/ \E s \in AllSources : TimedTaskStart(s)
  \/ \E s \in AllSources : TaskRequest(s)
  \/ \E s \in AllSources : TaskResponse(s)
  \/ TimedAwaitTask
  \/ CollectReturn

TimedSpec == Init /\ [][TimedNext]_vars

\* ------------------------------------- several calls on the same manager
\* cricket_manager is a module-level singleton: a caller makes its calls one
\* after the other on the same instance.
SessionAnalyze ==
  /\ calls < MaxSessionCalls
  /\ \E p \in TextSubjects, f \in {"all"}, m \in {"batting"} :
       BeginCall("analyze_player", <<p>>, f, m)

SessionCompare ==
  /\ calls < MaxSessionCalls
  /\ \E pp \in {<<"Virat Kohli", "Brian Lara">>}, f \in CompareFormats, m \in CompareModes :
       BeginCall("compare_players", pp, f, m)

SessionNext ==
  \/ SessionAnalyze
  \/ SessionCompare
  \/ \E s \in AllSources : TaskStart(s)
  \/ \E s \in AllSources : TaskWake(s)
  \/ AwaitTask
  \/ CollectReturn
  \/ SecondCollection
  \/ Aggregate
  \/ Summarize

SessionSpec == Init /\ [][SessionNext]_vars

\* ------------------------------------------------- the fallback generators
FallbackAgents == {"espn_direct", "espn_google", "google_search"}
FallbackFormats == {"all", "Test", "ODI", "T20"}
FallbackModes == {"batting", "bowling", "fielding"}

get_fallback_stats_first_call_only(agent, format_type, mode) ==
  IF fallbacks # <<>> THEN GeneralStats
  ELSE GoogleSearch_get_fallback_stats(format_type, mode)

\* self._get_fallback_stats(...) as the fallback branch of each search_player
\* calls it: with the format, and for google_search with the mode
get_fallback_stats(agent, format_type, mode) ==
  CASE agent = "espn_direct" -> ESPNDirect_get_fallback_stats(format_type)
    [] agent = "espn_google" -> ESPNGoogle_get_fallback_stats(format_type)
    [] agent = "google_search" -> GoogleSearch_get_fallback_stats(format_type, mode)

\* a search_player for the subject p reaches its fallback branch
FallbackCall(agent) ==
  /\ Len(fallbacks) < MaxFallbackCalls
  /\ \E p \in TextSubjects, f \in FallbackFormats, m \in FallbackModes :
       fallbacks' = Append(fallbacks,
                           [agent |-> agent, player_name |-> p, format_type |-> f,
                            mode |-> m, stats |-> get_fallback_stats(agent, f, m)])
  /\ UNCHANGED <<sub_agents, analyzer_agent, analyzer_model, calls, req, pc, tasks, task,
                 idx, results, data, successful, summarizer_calls, report, out_of_order,
                 faults, loop, queries, instances, scraper>>

FallbackNext == \E agent \in FallbackAgents : FallbackCall(agent)

FallbackSpec == Init /\ [][FallbackNext]_vars

\* ------------------------------------------------------ CricketDataScraper
\* what one request of the scraper ends with: an exception, a status other
\* than 200, a page without a player link, a link without an id, a link with one
ScraperReplies == {"exc", "status", "no_link", "no_id", "found"}
\* _try_cricbuzz_search / _try_wikipedia_search return a dict or None
AlternativeReplies == {"found", "none"}

\* lines 152-157, 163-168: the mock result
MockResult(player_name) ==
  [name |-> player_name, url |-> ESPN_BASE \o "/cricketers/test-player-123",
   id |-> "test-player-123", data_source |-> "mock_data"]

AlternativeResult(player_name, src) ==
  [name |-> player_name, url |-> src, id |-> "profile-id", data_source |-> src]

Scraper_try_alternative_sources_uncounted(stats, player_name, cricbuzz, wiki) ==
  IF cricbuzz = "found"
  THEN [stats |-> stats, ret |-> Ret(AlternativeResult(player_name, "cricbuzz"))]
  ELSE IF wiki = "found"
       THEN [stats |-> stats, ret |-> Ret(AlternativeResult(player_name, "wikipedia"))]
       ELSE [stats |-> stats, ret |-> RetNone]

\* CricketDataScraper._try_alternative_sources, lines 170-193
Scraper_try_alternative_sources(stats, player_name, cricbuzz, wiki) ==
  IF cricbuzz = "found"
  THEN [stats |-> [stats EXCEPT !.espn_successful = @ + 1],
        ret |-> Ret(AlternativeResult(player_name, "cricbuzz"))]
  ELSE IF wiki = "found"
       THEN [stats |-> [stats EXCEPT !.espn_successful = @ + 1],
             ret |-> Ret(AlternativeResult(player_name, "wikipedia"))]
       ELSE [stats |-> stats, ret |-> RetNone]

\* CricketDataScraper.search_player, lines 67-168; replies[i] is the reply to
\* the i-th search URL (two direct searches, then the Google search)
Scraper_search_player(stats, player_name, replies, cricbuzz, wiki) ==
  LET counted == [stats EXCEPT !.total_requests = @ + 1]
      mock(st) == [stats |-> [st EXCEPT !.espn_failed = @ + 1, !.mock_data_used = @ + 1],
                   ret |-> Ret(MockResult(player_name))]
      hits == {i \in 1..Len(replies) : replies[i] = "found"}
  IN IF ~IsText(player_name) THEN mock(counted)
     ELSE IF hits # {}
          THEN LET i == CHOOSE x \in hits : \A y \in hits : x <= y
               IN [stats |-> [counted EXCEPT !.espn_successful = @ + 1],
                   ret |-> Ret(IF i = 3
                               THEN [name |-> player_name, url |-> "espncricinfo link",
                                     id |-> "player-id", data_source |-> "espn_via_google"]
                               ELSE [name |-> "link text", url |-> "espncricinfo link",
                                     id |-> "player-id", data_source |-> "espn_direct"])]
          ELSE LET alt == Scraper_try_alternative_sources(counted, player_name, cricbuzz, wiki)
               IN IF alt.ret.kind = "dict" THEN alt ELSE mock(alt.stats)

ScraperCall(stats) ==
  /\ \E p \in Subjects, r1 \in ScraperReplies, r2 \in ScraperReplies, r3 \in ScraperReplies,
        cb \in AlternativeReplies, wk \in AlternativeReplies :
       LET out == Scraper_search_player(stats, p, <<r1, r2, r3>>, cb, wk)
       IN scraper' = [data_source_stats |-> out.stats, returned |-> out.ret]
  /\ UNCHANGED <<sub_agents, analyzer_agent, analyzer_model, calls, req, pc, tasks, task,
                 idx, results, data, successful, summarizer_calls, report, out_of_order,
                 faults, loop, queries, instances, fallbacks>>

\* cricket_mcp_server.search_player (line 425) and every other caller of
\* scraper.search_player
ScraperSearch ==
  /\ scraper.data_source_stats.total_requests < MaxRequests
  /\ ScraperCall(scraper.data_source_stats)

\* DataSourceMonitor.test_espn_connection, lines 48-62: the counters are
\* replaced by zeros, then search_player is called
test_espn_connection == ScraperCall(ZeroStats)

ScraperNext == ScraperSearch \/ test_espn_connection

ScraperSpec == Init /\ [][ScraperNext]_vars

\* --------------------------------------- two collections on one event loop
\* collect_data_from_sources is a coroutine of the singleton cricket_manager:
\* a second call can start while the tasks of the first sleep, and its tasks
\* call search_player on the same sub-agent instances.
search_player_self_remember(fields, player_name) ==
  [k \in DOMAIN fields \cup {"player_name"} |->
     IF k = "player_name" THEN player_name ELSE fields[k]]

\* the fields of self after search_player ran: it assigns none of them (it
\* reads base_url and calls session.get)
search_player_self(fields, player_name) == fields

\* the locals of the call q of collect_data_from_sources, as _collect_from_source gets them
QueryArgs(q, s) ==
  collect_from_source_args(s, queries[q].player_name, queries[q].format_type,
                           queries[q].mode)

\* the replies the two calls draw from: per provider an exception, an empty
\* page and a page with a match
SharedRunResponses(s) ==
  {r \in Responses(s) :
     \/ r.kind = "exc"
     \/ /\ r.kind = "http"
        /\ r.status = 200
        /\ s \in {"espn_direct", "espn_google"} =>
             \A i \in 1..Len(r.body) : r.body[i].id # ""}

NoTaskReady == \A q \in QueryIds, x \in AllSources : queries[q].task[x].pc # "ready"

\* lines 54-77 for the call q: its tasks are created and queued. The calls
\* are numbered in the order they arrive, and the two ask for different
\* subjects in different formats.
QueryStart(q) ==
  /\ pc = "idle"
  /\ queries[q].pc = "none"
  /\ \A o \in QueryIds : o < q => queries[o].pc # "none"
  /\ NoTaskReady
  /\ \E p \in TextSubjects \ {queries[3 - q].player_name},
        f \in Formats \ {queries[3 - q].format_type}, m \in {"batting"} :
       LET created == create_tasks(data_sources, sub_agents)
       IN queries' = [queries EXCEPT ![q] =
            [pc |-> "collecting", player_name |-> p, format_type |-> f, mode |-> m,
             task |-> [s \in AllSources |->
                         IF \E i \in 1..Len(created) : created[i] = s
                         THEN [pc |-> "ready", attempt |-> 0, ret |-> Pending,
                               result |-> Pending]
                         ELSE NoTask],
             results |-> <<>>]]
  /\ UNCHANGED <<sub_agents, analyzer_agent, analyzer_model, calls, req, pc, tasks, task,
                 idx, results, data, successful, summarizer_calls, report, out_of_order,
                 faults, loop, instances>>

  /\ UNCHANGED <<fallbacks, scraper>>
\* a queued task of the call q runs up to its first await
QueryTaskStart(q, s) ==
  /\ queries[q].pc = "collecting"
  /\ queries[q].task[s].pc = "ready"
  /\ \A i \in 1..Len(data_sources) :
       i < RegPos(s) => queries[q].task[data_sources[i]].pc # "ready"
  /\ LET a == QueryArgs(q, s)
         t == after_segment(a, search_player_start(a.agent, a.player_name,
                                                   a.format_type, search_mode(a)))
     IN /\ queries' = [queries EXCEPT ![q].task[s] = t]
        /\ instances' = [instances EXCEPT ![s] = search_player_self(@, a.player_name)]
  /\ UNCHANGED <<sub_agents, analyzer_agent, analyzer_model, calls, req, pc, tasks, task,
                 idx, results, data, successful, summarizer_calls, report, out_of_order,
                 faults, loop>>

  /\ UNCHANGED <<fallbacks, scraper>>
\* a sleep of a task of the call q ends: its request and what follows it
QueryTaskWake(q, s) ==
  /\ queries[q].pc = "collecting"
  /\ queries[q].task[s].pc = "sleep"
  /\ NoTaskReady
  /\ \E resp \in SharedRunResponses(s) :
       /\ IsFault(resp) => faults < MaxFaults
       /\ faults' = IF IsFault(resp) THEN faults + 1 ELSE faults
       /\ LET a == QueryArgs(q, s)
               t == after_segment(a, search_player_wake(a.agent, a.player_name,
                                     a.format_type, search_mode(a),
                                     queries[q].task[s].attempt, resp))
          IN /\ queries' = [queries EXCEPT ![q].task[s] = t]
             /\ instances' = [instances EXCEPT ![s] = search_player_self(@, a.player_name)]
  /\ UNCHANGED <<sub_agents, analyzer_agent, analyzer_model, calls, req, pc, tasks, task,
                 idx, results, data, successful, summarizer_calls, report, out_of_order,
                 loop>>

  /\ UNCHANGED <<fallbacks, scraper>>
\* lines 80-92 for the call q: every task awaited, the dict returned
QueryReturn(q) ==
  /\ queries[q].pc = "collecting"
  /\ \A s \in sub_agents : queries[q].task[s].pc = "done"
  /\ LET created == create_tasks(data_sources, sub_agents)
     IN queries' = [queries EXCEPT
          ![q].pc = "collected",
          ![q].results = [i \in 1..Len(created) |->
                            [key |-> created[i],
                             value |-> await_result(created[i],
                                                    queries[q].task[created[i]].result)]]]
  /\ UNCHANGED <<sub_agents, analyzer_agent, analyzer_model, calls, req, pc, tasks, task,
                 idx, results, data, successful, summarizer_calls, report, out_of_order,
                 faults, loop, instances>>

  /\ UNCHANGED <<fallbacks, scraper>>
TwoQueriesNext ==
  \E q \in QueryIds :
    \/ QueryStart(q)
    \/ \E s \in AllSources : QueryTaskStart(q, s)
    \/ \E s \in AllSources : QueryTaskWake(q, s)
    \/ QueryReturn(q)

TwoQueriesSpec == Init /\ [][TwoQueriesNext]_vars

\* ------------------------------------------- the analyzer call that raises
\* str(e) of the error print() raises when stdout cannot take the text
StdoutErrs == {"[Errno 32] Broken pipe"}

\* the record of a call on the analyzer that ended with an exception
analyzer_call_raised(fn, players, format_type, succ, mode, msg) ==
  [fn |-> fn, players |-> players, format_type |-> format_type, data |-> succ,
   mode |-> mode, raised |-> msg]

\* AnalyzerAgent.analyze_player_data line 43, compare_players_data line 72:
\* the print that precedes the method's try block raises, so the awaited call
\* of lines 139 / 200 of the manager raises into the manager's try block
SummarizerRaises ==
  /\ pc = "summarizing"
  /\ analyzer_agent # "None"
  /\ \E m \in StdoutErrs :
       LET single == req.op = "analyze_player"
       IN /\ summarizer_calls' =
               Append(summarizer_calls,
                      analyzer_call_raised(IF single THEN "analyze_player_data"
                                           ELSE "compare_players_data",
                                           req.players, req.format_type, successful,
                                           req.mode, m))
          /\ report' = IF single THEN analyze_player_return(req.players[1], Raise(m))
                       ELSE compare_players_return(Raise(m))
  /\ pc' = "returned"
  /\ UNCHANGED <<sub_agents, analyzer_agent, analyzer_model, calls, req, tasks, task,
                 idx, results, data, successful, out_of_order, faults>>
  /\ UNCHANGED <<loop, queries, instances>>

  /\ UNCHANGED <<fallbacks, scraper>>
NextSummarizerFault == Next \/ SummarizerRaises

\* Spec with a stdout that can fail under the analyzer's first print
SpecSummarizerFault == Init /\ [][NextSummarizerFault]_vars

\* ------------------------------------------------------------- properties
Range(q) == {q[i] : i \in 1..Len(q)}
IsSuccessEntry(e) == "success" \in DOMAIN e.value /\ e.value.success = TRUE
SuccessEntries(d) == SelectSeq(d, IsSuccessEntry)
Collected == pc \in {"collected", "summarizing", "returned"}
Analyzing == req.op = "analyze_player"
Comparing == req.op = "compare_players"

\* C1: every collection returns exactly one outcome for every source of
\* data_sources that has a registered sub-agent, whatever the providers did
\* (returned success, fallback or failure, returned None, or raised); with the
\* four sub-agents registered that is four outcomes.
C1_OneOutcomePerProvider ==
  \A i \in 1..Len(data) :
    /\ \A s \in AllSources :
         Cardinality({j \in 1..Len(data[i]) : data[i][j].key = s})
           = (IF s \in sub_agents THEN 1 ELSE 0)
    /\ Len(data[i]) = Cardinality(sub_agents)
    /\ sub_agents = AllSources => Len(data[i]) = 4

C1_Witness ==
  /\ pc = "collected"
  /\ Len(data[Len(data)]) = 4
  /\ \E s \in AllSources : task[s].ret.kind = "raise"
  /\ \E s \in AllSources : task[s].ret.kind = "dict" /\ task[s].ret.value.success

\* C2: the keys of the dict a collection returns are in registration order
\* (espn_direct, espn_google, wikipedia, google_search), in whatever order the
\* tasks completed; so are the keys of the dict while it is being filled.
C2_RegistrationOrder ==
  /\ \A i \in 1..Len(data) : \A j, k \in 1..Len(data[i]) :
       j < k => RegPos(data[i][j].key) < RegPos(data[i][k].key)
  /\ \A j, k \in 1..Len(results) :
       j < k => RegPos(results[j].key) < RegPos(results[k].key)

C2_Witness ==
  /\ pc = "collected"
  /\ out_of_order
  /\ DictKeys(data[Len(data)]) = data_sources

\* C3: a provider whose search_player raised gets a Failure outcome carrying
\* the exception's message, the collection still returns, and every other
\* provider of that collection has exactly the outcome it returned.
C3_RaiseBecomesFailure ==
  /\ \A e \in Range(results) :
       task[e.key].ret.kind = "raise" =>
         /\ e.value.success = FALSE
         /\ e.value.error = task[e.key].ret.msg
         /\ \A o \in Range(results) :
              task[o.key].ret.kind # "raise" =>
                /\ task[o.key].ret.kind = "dict"
                /\ o.value = task[o.key].ret.value
  /\ pc = "collected" => data[Len(data)] = results
  /\ (pc = "collecting" /\ \A s \in Range(tasks) : task[s].pc = "done")
       => ENABLED (AwaitTask \/ CollectReturn)

C3_Witness ==
  /\ pc = "collected"
  /\ \E e \in Range(results) : task[e.key].ret.kind = "raise" /\ ~e.value.success
  /\ \E e \in Range(results) : task[e.key].ret.kind = "dict" /\ e.value.success

\* C4: a collection has returned only when every task it started is done.
C4_WaitForAll ==
  Collected => \A s \in Range(tasks) : task[s].pc = "done" /\ DictHas(results, s)

C4_Witness ==
  /\ pc = "collected"
  /\ Len(tasks) = 4
  /\ \A s \in Range(tasks) : task[s].pc = "done"
  /\ \E s \in Range(tasks) : ~results[Position(tasks, s)].value.success

\* C5: the successful subset of each subject is exactly the entries of its
\* collected outcomes with success = True, keyed by source, each value being
\* the outcome the provider returned; that subset is what the analyzer gets.
C5_SuccessfulSubsetExact ==
  /\ pc \in {"summarizing", "returned"} =>
       /\ Len(successful) = Len(data)
       /\ \A i \in 1..Len(data) : successful[i] = SuccessEntries(data[i])
  /\ \A e \in Range(results) : IsSuccessEntry(e) => task[e.key].ret = Ret(e.value)
  /\ pc = "collected" => data[Len(data)] = results
  /\ \A c \in Range(summarizer_calls) :
       c.data = [i \in 1..Len(data) |-> SuccessEntries(data[i])]

C5_Witness ==
  /\ pc = "returned"
  /\ Comparing
  /\ Len(summarizer_calls) = 1
  /\ \E e \in Range(data[1]) : ~IsSuccessEntry(e)
  /\ \E e \in Range(data[2]) : IsSuccessEntry(e) /\ Get(e.value, "fallback_data", FALSE)

\* C6: when none of the outcomes of the subject is successful, analyze_player
\* returns the "All sources failed" report and the analyzer is never called.
C6_AllFailedNoSummarizer ==
  (Analyzing /\ Collected /\ SuccessEntries(data[1]) = <<>>) =>
     /\ summarizer_calls = <<>>
     /\ pc # "summarizing"
     /\ pc = "returned" => report = Returned(no_sources_report(req.players[1]))

C6_Witness ==
  /\ Analyzing
  /\ pc = "returned"
  /\ Len(data[1]) = 4
  /\ SuccessEntries(data[1]) = <<>>

\* C7: with at least one successful outcome analyze_player calls the analyzer
\* exactly once, with the subject, the format, the mode and exactly the
\* successful subset, and the report holds the analyzer's text and the status
\* report (a header and one line per collected outcome).
C7_SummarizerOnceWithSubset ==
  (Analyzing /\ pc = "returned" /\ SuccessEntries(data[1]) # <<>>) =>
     /\ Len(summarizer_calls) = 1
     /\ summarizer_calls[1].fn = "analyze_player_data"
     /\ summarizer_calls[1].players = req.players
     /\ summarizer_calls[1].format_type = req.format_type
     /\ summarizer_calls[1].mode = req.mode
     /\ summarizer_calls[1].data = <<SuccessEntries(data[1])>>
     /\ report.kind = "return"
     /\ report.value.kind = "analysis"
     /\ report.value.body = summarizer_calls[1].returned
     /\ Len(report.value.status) = Len(data[1]) + 1
     /\ report.value.status[1].kind = "header"
     /\ \A j \in 1..Len(data[1]) : report.value.status[j + 1].source = data[1][j].key

C7_Witness ==
  /\ Analyzing
  /\ pc = "returned"
  /\ req.mode = "bowling"
  /\ Len(summarizer_calls) = 1
  /\ \E e \in Range(data[1]) : ~IsSuccessEntry(e)
  /\ report.value.kind = "analysis"

\* C8: compare_players calls the analyzer only when both subjects have a
\* successful source; when exactly one subject has none, it returns the
\* "Cannot compare" report naming that subject and the analyzer is not called.
C8_CompareNeedsBoth ==
  Comparing =>
    /\ summarizer_calls # <<>> =>
         SuccessEntries(data[1]) # <<>> /\ SuccessEntries(data[2]) # <<>>
    /\ (pc = "returned" /\ SuccessEntries(data[1]) = <<>> /\ SuccessEntries(data[2]) # <<>>)
         => /\ report = Returned(cannot_compare_report(req.players[1]))
            /\ summarizer_calls = <<>>
    /\ (pc = "returned" /\ SuccessEntries(data[1]) # <<>> /\ SuccessEntries(data[2]) = <<>>)
         => /\ report = Returned(cannot_compare_report(req.players[2]))
            /\ summarizer_calls = <<>>

C8_Witness ==
  /\ Comparing
  /\ pc = "returned"
  /\ req.players[1] # req.players[2]
  /\ SuccessEntries(data[1]) # <<>>
  /\ SuccessEntries(data[2]) = <<>>

IsAnalysisReport == pc = "returned" /\ report.kind = "return" /\ report.value.kind = "analysis"
SuccessLines(st) ==
  {j \in 1..Len(st) : st[j].kind = "source" /\
                      st[j].category \in {"Success (Live Data)", "Success (Fallback Data)"}}

RaisedCalls == {c \in Range(summarizer_calls) : "raised" \in DOMAIN c}

\* C11: when the awaited call on the analyzer raises, analyze_player returns
\* "Error analyzing player <subject>: <message>" and compare_players returns
\* "Error comparing players: <message>", with the exception's message; a
\* report formatted as an analysis or a comparison is returned only when no
\* call on the analyzer raised.
C11_SummarizerRaiseBecomesErrorReport ==
  /\ \A c \in RaisedCalls :
       /\ pc = "returned"
       /\ report.kind = "return"
       /\ report.value.kind = "error"
       /\ report.value.text =
            (IF Analyzing THEN "Error analyzing player " \o PyStr(req.players[1]) \o ": "
             ELSE "Error comparing players: ") \o c.raised
  /\ (pc = "returned" /\ report.kind = "return"
      /\ report.value.kind \in {"analysis", "comparison"}) => RaisedCalls = {}

C11_Witness ==
  /\ pc = "returned"
  /\ Comparing
  /\ RaisedCalls # {}
  /\ report.value.kind = "error"

\* the subject of the collection whose tasks are in `task`
TaskPlayer == IF pc = "collecting" THEN req.players[Len(data) + 1] ELSE req.players[Len(data)]
TaskArgs(s) == collect_from_source_args(s, TaskPlayer, req.format_type, req.mode)

\* C12: for a text subject no search_player propagates an exception: every
\* finished call has returned, and after every fault of the network (an
\* exception of the request, a status other than 200) on every attempt the
\* call returns a dict or goes on to its next attempt.
C12_ProvidersReturnOnFault ==
  (pc # "idle" /\ IsText(TaskPlayer)) =>
    /\ \A s \in Range(tasks) : task[s].pc = "done" => task[s].ret.kind # "raise"
    /\ \A s \in Range(tasks) :
         LET a == TaskArgs(s)
         IN /\ search_player_start(a.agent, a.player_name, a.format_type,
                                   search_mode(a)).kind # "raise"
            /\ \A attempt \in 1..2, resp \in Responses(s) :
                 IsFault(resp) =>
                   search_player_wake(a.agent, a.player_name, a.format_type, search_mode(a),
                                      attempt, resp).kind \in {"dict", "sleep"}

C12_Witness ==
  /\ pc = "collected"
  /\ IsText(TaskPlayer)
  /\ faults = 1
  /\ task["espn_google"].ret.kind = "dict"
  /\ Get(task["espn_google"].ret.value, "data_source", "") = "espn_google_fallback"

\* the status of the spec's ProviderOutcome that a returned dict stands for
OutcomeStatus(d) ==
  IF "success" \in DOMAIN d /\ d.success = TRUE
  THEN IF "fallback_data" \in DOMAIN d /\ d.fallback_data = TRUE
       THEN "SuccessFallback" ELSE "Success"
  ELSE "Failure"

\* C13 as stated: on every path of search_player (for a text subject) the
\* value returned is a typed outcome (a dict with a success flag, that is
\* Success, SuccessFallback or Failure) and never an absent value.
C13_TypedOutcomeOnEveryPath ==
  (pc # "idle" /\ IsText(TaskPlayer)) =>
    \A s \in Range(tasks) :
      task[s].pc = "done" =>
        /\ task[s].ret.kind = "dict"
        /\ "success" \in DOMAIN task[s].ret.value
        /\ OutcomeStatus(task[s].ret.value) \in {"Success", "SuccessFallback", "Failure"}

StatusLinesOf(st, s) == {j \in 2..Len(st) : st[j].source = s}

\* C14: the status report gives every outcome exactly one line with exactly
\* one of three categories: success without the fallback flag is "Success
\* (Live Data)", success with the fallback flag is "Success (Fallback
\* Data)", and an unsuccessful outcome is "Failed" with its error message.
C14_ThreeCategories ==
  IsAnalysisReport =>
    LET st == report.value.status
    IN /\ \A j \in 2..Len(st) :
            st[j].category \in {"Success (Live Data)", "Success (Fallback Data)", "Failed"}
       /\ \A e \in Range(data[1]) :
            /\ Cardinality(StatusLinesOf(st, e.key)) = 1
            /\ \A j \in StatusLinesOf(st, e.key) :
                 CASE OutcomeStatus(e.value) = "Success" ->
                        st[j].category = "Success (Live Data)"
                   [] OutcomeStatus(e.value) = "SuccessFallback" ->
                        st[j].category = "Success (Fallback Data)"
                   [] OutcomeStatus(e.value) = "Failure" ->
                        st[j].category = "Failed" /\ st[j].reason = e.value.error

C14_Witness ==
  /\ IsAnalysisReport
  /\ \A c \in {"Success", "SuccessFallback", "Failure"} :
       \E e \in Range(data[1]) : OutcomeStatus(e.value) = c

\* C15: the status report has exactly one line for every provider the
\* collection fanned out to, in the order the tasks were created, which is
\* the registration order of the providers that have a sub-agent.
C15_StatusReportMatchesFanOut ==
  IsAnalysisReport =>
    LET st == report.value.status
    IN /\ [j \in 1..(Len(st) - 1) |-> st[j + 1].source] = tasks
       /\ tasks = SelectSeq(data_sources, LAMBDA s : s \in sub_agents)

C15_Witness ==
  /\ IsAnalysisReport
  /\ Len(tasks) = 4
  /\ out_of_order
  /\ \E e \in Range(data[1]) : OutcomeStatus(e.value) = "Failure"

\* what a collection can store for provider s when it is asked for the
\* subject p alone: every outcome of its first attempt and of a second one
SoloSegments(s, p, f, m) ==
  LET a == collect_from_source_args(s, p, f, m)
      first == search_player_start(a.agent, p, f, search_mode(a))
      wake(att, resp) == search_player_wake(a.agent, p, f, search_mode(a), att, resp)
      segs1 == IF first.kind = "sleep" THEN {wake(1, r) : r \in Responses(s)} ELSE {first}
      again == {x \in segs1 : x.kind = "sleep"}
  IN (segs1 \ again) \cup UNION {{wake(x.attempt, r) : r \in Responses(s)} : x \in again}

SoloOutcomes(s, p, f, m) ==
  {await_result(s, collect_from_source_return(collect_from_source_args(s, p, f, m), x)) :
     x \in SoloSegments(s, p, f, m)}

\* C20: compare_players makes exactly two collections, the i-th for the i-th
\* subject and over every registered provider; every outcome a collection
\* returns is one its provider can give for that subject alone, whatever
\* happened in the other collection, and each successful subset is the
\* successes of its own subject's outcomes.
C20_IndependentCollections ==
  Comparing =>
    /\ Len(data) <= 2
    /\ pc \in {"summarizing", "returned"} => Len(data) = 2
    /\ \A i \in 1..Len(data) :
         DictKeys(data[i]) = SelectSeq(data_sources, LAMBDA s : s \in sub_agents)
    /\ pc = "collected" =>
         \A e \in Range(data[Len(data)]) :
           e.value \in SoloOutcomes(e.key, req.players[Len(data)], req.format_type, req.mode)
    /\ [i \in 1..Len(data) |-> DictKeys(SuccessEntries(data[i]))]
         = [i \in 1..Len(data) |-> SelectSeq(DictKeys(data[i]),
               LAMBDA s : OutcomeStatus(DictAt(data[i], s)) # "Failure")]
    /\ pc \in {"summarizing", "returned"} =>
         \A i \in 1..2 : successful[i] = SuccessEntries(data[i])

C20_Witness ==
  /\ Comparing
  /\ pc = "returned"
  /\ req.players[1] # req.players[2]
  /\ Len(data) = 2
  /\ \E s \in sub_agents :
       /\ OutcomeStatus(DictAt(data[1], s)) = "Failure"
       /\ OutcomeStatus(DictAt(data[2], s)) = "Success"

\* C18: under fair scheduling, with every request ending, every task of a
\* collection ends with a dict (success, fallback or failure) and the
\* collection returns.
C18_CollectionTerminates ==
  (pc = "collecting")
     ~> (/\ pc = "collected"
         /\ data[Len(data)] = results
         /\ \A s \in sub_agents :
              /\ task[s].pc = "done"
              /\ task[s].result.kind = "dict"
              /\ DictHas(results, s)
              /\ OutcomeStatus(DictAt(results, s)) \in {"Success", "SuccessFallback", "Failure"})

C18_Witness ==
  /\ pc = "collected"
  /\ Len(tasks) = 4
  /\ \E c \in {"Success", "SuccessFallback", "Failure"} :
       \A x \in {"Success", "SuccessFallback", "Failure"} \ {c} :
         \E e \in Range(results) : OutcomeStatus(e.value) = x
  /\ OutcomeStatus(DictAt(results, "espn_direct")) = "SuccessFallback"

SetMax(S) == CHOOSE x \in S : \A y \in S : y <= x
\* how long the running collection has taken so far
CollectionTime == loop.time - loop.started
\* the longest call of a single provider: its own sleeps and requests
SlowestProvider == SetMax({loop.spent[s] : s \in AllSources})
\* the sleep of t is over: the loop's clock has reached its timer
Due(t) == task[t].pc = "sleep" /\ loop.timers[t] <= loop.time

\* C16 as stated: every registered provider has its task before the
\* collector waits for any, and the collection takes no longer than the
\* slowest single provider call (its own sleeps and requests).
C16_BoundedBySlowestProvider ==
  /\ pc = "collecting" =>
       /\ tasks = SelectSeq(data_sources, LAMBDA s : s \in sub_agents)
       /\ \A s \in sub_agents : task[s].pc # "none"
  /\ pc = "collected" => CollectionTime <= SlowestProvider

\* C17 as stated, for the part of a fetch that is its network request: while
\* a provider is inside session.get, every other provider whose sleep is
\* over can take its next step.
C17_NoProviderBlocksAnother ==
  \A s \in Range(tasks), t \in Range(tasks) :
    (s # t /\ task[s].pc = "request" /\ Due(t))
       => ENABLED (TaskRequest(t) \/ TaskResponse(t) \/ TimedTaskStart(t))

\* an outcome names the subject p and the format f, wherever it names any
BuiltFor(v, p, f) ==
  /\ "name" \in DOMAIN v => v.name = p
  /\ "player_name" \in DOMAIN v => v.player_name = p
  /\ "format_type" \in DOMAIN v => v.format_type = f
  /\ "player_info" \in DOMAIN v => v.player_info.name = p

ReportOfThisCall ==
  LET succ == [i \in 1..Len(data) |-> SuccessEntries(data[i])]
      text == summarizer_calls[1].returned
  IN IF Analyzing
     THEN IF succ[1] = <<>> THEN no_sources_report(req.players[1])
          ELSE analysis_report(req.players[1], req.format_type, req.mode,
                               data[1], succ[1], text)
     ELSE IF succ[1] = <<>> THEN cannot_compare_report(req.players[1])
          ELSE IF succ[2] = <<>> THEN cannot_compare_report(req.players[2])
          ELSE comparison_report(req.players, req.format_type, req.mode,
                                 succ[1], succ[2], text)

ReportFromOwnCall ==
  /\ pc \in {"collecting", "collected", "summarizing"} =>
       summarizer_calls = <<>> /\ report = NoReport
  /\ pc = "returned" =>
    /\ Len(data) = Len(req.players)
    /\ \A i \in 1..Len(data) : \A e \in Range(data[i]) :
         e.value \in SoloOutcomes(e.key, req.players[i], req.format_type, req.mode)
    /\ Len(summarizer_calls) <= 1
    /\ \A c \in Range(summarizer_calls) :
         /\ c.players = req.players
         /\ c.format_type = req.format_type
         /\ c.mode = req.mode
         /\ c.data = [i \in 1..Len(data) |-> SuccessEntries(data[i])]
    /\ report = Returned(ReportOfThisCall)

\* C21: no step of analyze_player or compare_players changes the manager's
\* sub_agents or analyzer_agent (data_sources is a fixed list), and in a
\* sequence of calls on the same manager the report of each call is the one
\* computed from that call's arguments, the outcomes of that call's
\* collections and the analyzer's answer in that call; the analyzer calls on
\* record are those of that call only, and a call that has not reached the
\* analyzer yet has none on record.
C21_NoSessionState ==
  /\ []ReportFromOwnCall
  /\ [][/\ sub_agents' = sub_agents
        /\ analyzer_agent' = analyzer_agent
        /\ analyzer_model' = analyzer_model]_vars

C21_Witness ==
  /\ calls = 2
  /\ pc = "returned"
  /\ Analyzing
  /\ report.value.kind = "analysis"
  /\ Len(summarizer_calls) = 1
  /\ \E e \in Range(data[1]) : OutcomeStatus(e.value) = "Failure"

GenerationFailed ==
  {c \in Range(summarizer_calls) :
     /\ "returned" \in DOMAIN c
     /\ c.returned \in {analyze_player_data(FALSE, g) : g \in GeminiOutcomes}
                       \cup {analyze_player_data(TRUE, Exc(m)) : m \in ExcMsgs}}

\* C23 as stated: when the text generation fails during analyze_player, the
\* call returns a terminal failure report that holds the raw error message,
\* and not a report formatted as a completed analysis.
C23_GenerationFailureIsTerminal ==
  (Analyzing /\ pc = "returned") =>
    \A c \in GenerationFailed :
      /\ report.kind = "return"
      /\ report.value.kind = "error"
      /\ report.value.kind # "analysis"

\* C24 as stated: the google_search task runs search_player with the mode the
\* collection was given (an outcome that names a mode names that one), and
\* the tasks of the other providers run it with the subject and the format
\* only.
C24_ModeReachesGoogleSearch ==
  pc # "idle" =>
    \A s \in Range(tasks) :
      IF s = "google_search"
      THEN /\ search_mode(TaskArgs(s)) = req.mode
           /\ (task[s].pc = "done" /\ task[s].ret.kind = "dict"
               /\ "mode" \in DOMAIN task[s].ret.value)
                => task[s].ret.value.mode = req.mode
      ELSE (task[s].pc = "done" /\ task[s].ret.kind = "dict")
             => "mode" \notin DOMAIN task[s].ret.value

\* C25 as stated: the Failure outcome stored under a provider whose
\* search_player raised (or returned nothing usable) is labelled with that
\* provider's own id.
C25_SynthesisedFailureNamesProvider ==
  \A e \in Range(results) :
    task[e.key].ret.kind \in {"raise", "none"} =>
      /\ e.value.success = FALSE
      /\ e.value.data_source = e.key

\* C26: with the four sub-agents registered and a text subject, every path of
\* ESPNDirectAgent.search_player ends with a successful outcome (live when a
\* player link with an id was found, fallback otherwise), so every collection
\* has a successful outcome and analyze_player never returns the "All sources
\* failed" report.
C26_ESPNDirectAlwaysSucceeds ==
  (sub_agents = AllSources /\ pc # "idle" /\ IsText(TaskPlayer)) =>
    /\ task["espn_direct"].pc = "done" =>
         /\ task["espn_direct"].ret.kind = "dict"
         /\ OutcomeStatus(task["espn_direct"].ret.value) \in {"Success", "SuccessFallback"}
    /\ pc = "collected" =>
         /\ \A x \in SoloOutcomes("espn_direct", TaskPlayer, req.format_type, req.mode) :
              OutcomeStatus(x) \in {"Success", "SuccessFallback"}
         /\ SuccessEntries(data[Len(data)]) # <<>>
    /\ (Analyzing /\ pc = "returned") =>
         /\ report.kind = "return"
         /\ report.value.kind # "no_sources"
         /\ Len(summarizer_calls) = 1

C26_Witness ==
  /\ sub_agents = AllSources
  /\ Analyzing
  /\ IsText(req.players[1])
  /\ pc = "returned"
  /\ report.value.kind = "analysis"
  /\ OutcomeStatus(DictAt(data[1], "espn_direct")) = "SuccessFallback"
  /\ \A s \in AllSources \ {"espn_direct"} : OutcomeStatus(DictAt(data[1], s)) = "Failure"

\* what GoogleSearchAgent.search_player returns for the reply resp
GoogleOutcome(resp) ==
  LET a == TaskArgs("google_search")
  IN GoogleSearch_wake(a.player_name, a.format_type, search_mode(a), resp)

\* C27: for a text subject GoogleSearchAgent.search_player returns a fallback
\* outcome exactly for the replies that are exceptions; for every reply with
\* status 200 it returns a live Success, also when no snippet, site or
\* statistic was extracted, and for every other status a Failure.  A finished
\* call with a fallback outcome is the except handler's (it has no
\* search_query) and follows a fault of the network.
C27_GoogleFallbackOnlyOnException ==
  (pc # "idle" /\ IsText(TaskPlayer) /\ "google_search" \in Range(tasks)) =>
    /\ \A resp \in GoogleSearchResponses :
         /\ GoogleOutcome(resp).kind = "dict"
         /\ OutcomeStatus(GoogleOutcome(resp).value) =
              (IF resp.kind = "exc" THEN "SuccessFallback"
               ELSE IF resp.status = 200 THEN "Success" ELSE "Failure")
    /\ (task["google_search"].pc = "done"
        /\ OutcomeStatus(task["google_search"].ret.value) = "SuccessFallback")
         => /\ faults > 0
            /\ "search_query" \notin DOMAIN task["google_search"].ret.value

C27_Witness ==
  /\ pc = "collected"
  /\ IsText(TaskPlayer)
  /\ task["google_search"].pc = "done"
  /\ OutcomeStatus(task["google_search"].ret.value) = "Success"
  /\ task["google_search"].ret.value.search_results.search_snippets = <<>>
  /\ task["google_search"].ret.value.search_results.cricket_sites = <<>>
  /\ task["google_search"].ret.value.search_results.statistics_mentioned = <<>>

\* C28: in compare_players the tasks of the second subject are created only
\* when the first collection has returned, with every task of the first
\* subject done and its outcome stored; and the second collection is always
\* entered, also when the first subject has no successful source.
C28_SecondAfterFirst ==
  /\ [](Comparing =>
          /\ (pc = "collected" /\ Len(data) = 1) => ENABLED SecondCollection
          /\ (pc = "collecting" /\ Len(data) = 1) =>
               \A s \in sub_agents : DictHas(data[1], s)
          /\ pc \in {"summarizing", "returned"} => Len(data) = 2)
  /\ [][(Comparing /\ Len(data) = 1 /\ pc' = "collecting" /\ pc # "collecting") =>
          /\ pc = "collected"
          /\ \A s \in Range(tasks) : task[s].pc = "done" /\ DictHas(data[1], s)
          /\ CurPlayer' = req.players[2]
          /\ \A s \in Range(tasks') : task'[s].pc = "ready"]_vars

C28_Witness ==
  /\ Comparing
  /\ pc = "collecting"
  /\ Len(data) = 1
  /\ Len(data[1]) = 4
  /\ SuccessEntries(data[1]) = <<>>
  /\ IsText(req.players[2])
  /\ \E s \in Range(tasks) : task[s].pc = "sleep"

\* C29: in every completed analysis report of analyze_player the number of
\* success lines of the status report (live or fallback) is the source count
\* of the footer and the size of the subset the analyzer was called with,
\* and the number of source lines is the number of outcomes collected.
C29_CountsAgree ==
  (Analyzing /\ IsAnalysisReport) =>
    LET st == report.value.status
        lines == {j \in 1..Len(st) : st[j].kind = "source"}
    IN /\ Len(summarizer_calls) = 1
       /\ Cardinality(SuccessLines(st)) = report.value.source_count
       /\ report.value.source_count = Len(summarizer_calls[1].data[1])
       /\ Cardinality(lines) = Len(data[1])
       /\ Cardinality(lines) = Len(tasks)
       /\ \A j \in lines \ SuccessLines(st) : st[j].category = "Failed"

C29_Witness ==
  /\ Analyzing
  /\ IsAnalysisReport
  /\ Len(data[1]) = 4
  /\ report.value.source_count = 3
  /\ Cardinality(SuccessLines(report.value.status)) = 3
  /\ \E j \in SuccessLines(report.value.status) :
       report.value.status[j].category = "Success (Fallback Data)"

StatsStep(a, b) ==
  /\ b.total_requests = a.total_requests + 1
  /\ \/ /\ b.espn_successful = a.espn_successful + 1
        /\ b.espn_failed = a.espn_failed
        /\ b.mock_data_used = a.mock_data_used
     \/ /\ b.espn_successful = a.espn_successful
        /\ b.espn_failed = a.espn_failed + 1
        /\ b.mock_data_used = a.mock_data_used + 1

\* C30: after any sequence of search_player calls and resets of the counters,
\* espn_successful + espn_failed = total_requests and mock_data_used =
\* espn_failed; every call adds 1 to total_requests (counted from the old
\* counters, or from zero after a reset) and 1 to either espn_successful or
\* both espn_failed and mock_data_used, and the mock result is returned
\* exactly by the calls that count a failure.
C30_CountersAddUp ==
  /\ [](LET st == scraper.data_source_stats
        IN /\ st.espn_successful + st.espn_failed = st.total_requests
           /\ st.mock_data_used = st.espn_failed)
  /\ [][scraper' # scraper =>
          /\ \/ StatsStep(scraper.data_source_stats, scraper'.data_source_stats)
             \/ StatsStep(ZeroStats, scraper'.data_source_stats)
          /\ scraper'.returned.kind = "dict"
          /\ (scraper'.returned.value.data_source = "mock_data")
               <=> (\/ /\ scraper'.data_source_stats.espn_failed =
                            scraper.data_source_stats.espn_failed + 1
                       /\ scraper'.data_source_stats.total_requests # 1
                    \/ /\ scraper'.data_source_stats.espn_failed = 1
                       /\ scraper'.data_source_stats.total_requests = 1)]_vars

C30_Witness ==
  /\ scraper.data_source_stats.total_requests = 3
  /\ scraper.data_source_stats.espn_successful = 2
  /\ scraper.data_source_stats.espn_failed = 1
  /\ scraper.data_source_stats.mock_data_used = 1
  /\ scraper.returned.kind = "dict"
  /\ scraper.returned.value.data_source = "wikipedia"

====
